---- MODULE Spec2Model ----
(***************************************************************************)
(* Session / token lifecycle and authenticated-request layer of the admin  *)
(* dashboard (src/app.js): token store, expiry inspection, CSRF-token      *)
(* cache, adminFetch with its CSRF retry, forced logout and login prompt.  *)
(* Every await of the source is a step boundary; the code between two      *)
(* awaits is one atomic action (single-threaded event loop).               *)
(***************************************************************************)
EXTENDS Integers, Sequences, FiniteSets, TLC

(* ------------------------------ bounds --------------------------------- *)
MaxNow == 4
MaxCalls == 2
MaxInvalidate == 3

Procs == {"p1", "p2"}

\* the asynchronous handlers that can be suspended: the adminFetch calls and
\* the submit handler of the login form
LoginForm == "login"
Promote == "promote"
Page == "page"
Handlers == Procs \cup {LoginForm, Promote, Page}

(* ------------------------------ tokens --------------------------------- *)
\* A token string is named by a letter; JWT(t) says what the string looks
\* like to split('.'), to atob and to JSON.parse.  "" is the empty string.
\*   parts = the number of dot-separated segments
\*   chars = the characters of the middle segment: "url" (letters, digits,
\*           '-' and '_' only: the base64url alphabet), "std" (also '+' or
\*           '/': the standard base64 alphabet), "space" (base64url with
\*           ASCII whitespace in it), "bad" (some other character, such as
\*           '!'), "short" (base64url of a length that is 1 modulo 4)
\*   text  = what the bytes of the middle segment spell: a JSON "object",
\*           the JSON literal "null", a JSON "number", or "notjson"
\*   exp   = the exp member of that object (NoExp = there is none)
NoExp == -1

TokenPool == {"A", "E", "Z", "N", "M"}

JWT(t) ==
    CASE t = "A" -> [parts |-> 3, chars |-> "url", text |-> "object", exp |-> 3]
      [] t = "E" -> [parts |-> 3, chars |-> "url", text |-> "object", exp |-> 1]
      [] t = "Z" -> [parts |-> 3, chars |-> "url", text |-> "object", exp |-> 0]
      [] t = "N" -> [parts |-> 3, chars |-> "url", text |-> "object", exp |-> NoExp]
      [] t = "F" -> [parts |-> 3, chars |-> "url", text |-> "object", exp |-> 1000]
      [] t = "G" -> [parts |-> 3, chars |-> "url", text |-> "object", exp |-> 60]
      [] t = "M" -> [parts |-> 2, chars |-> "url", text |-> "object", exp |-> 1000]
      [] t = "Q" -> [parts |-> 4, chars |-> "url", text |-> "object", exp |-> 1000]
      [] t = "B" -> [parts |-> 3, chars |-> "bad", text |-> "object", exp |-> 1000]
      [] t = "S" -> [parts |-> 3, chars |-> "short", text |-> "object", exp |-> 1000]
      [] t = "J" -> [parts |-> 3, chars |-> "url", text |-> "notjson", exp |-> NoExp]
      [] t = "U" -> [parts |-> 3, chars |-> "url", text |-> "null", exp |-> NoExp]
      [] t = "I" -> [parts |-> 3, chars |-> "url", text |-> "number", exp |-> NoExp]
      [] t = "P" -> [parts |-> 3, chars |-> "std", text |-> "object", exp |-> 1000]
      [] t = "R" -> [parts |-> 3, chars |-> "std", text |-> "object", exp |-> NoExp]
      [] t = "V" -> [parts |-> 3, chars |-> "std", text |-> "notjson", exp |-> NoExp]
      [] t = "W" -> [parts |-> 3, chars |-> "space", text |-> "object", exp |-> 1]
      [] OTHER   -> [parts |-> 1, chars |-> "url", text |-> "object", exp |-> 1000]

\* every string the token inspection is tried on
TokenStrings ==
    {"", "x", "A", "E", "Z", "N", "F", "G", "M", "Q", "B", "S", "J", "U", "I", "P",
     "R", "V", "W"}

\* .replace(/-/g, '+').replace(/_/g, '/'): base64url becomes standard base64
replaceUrlChars(chars) == IF chars = "url" THEN "std" ELSE chars

\* atob(): ASCII whitespace is stripped, '=' padding is optional; a character
\* outside the standard alphabet or a length of 1 modulo 4 throws
atobThrows(chars) == chars \notin {"std", "space"}

\* JSON.parse(): throws unless the text is JSON
JSONparseThrows(text) == text = "notjson"

\* payload.exp: reading a member of null throws, a number has no such member
expThrows(text) == text = "null"
expOf(j) == IF j.text = "object" THEN j.exp ELSE NoExp

\* the try block: whether control reaches catch
Caught(j) ==
    \/ atobThrows(replaceUrlChars(j.chars))
    \/ JSONparseThrows(j.text)
    \/ expThrows(j.text)

\* (mutant) a missing exp counts as an exp that has passed
Truthy_MissingIsSet(exp) == exp # 0

\* if (payload.exp): a missing exp (undefined) and exp = 0 are both falsy
Truthy(exp) == exp # NoExp /\ exp # 0

isTokenExpired(token, t) ==
    IF token = "" THEN TRUE
    ELSE IF JWT(token).parts # 3 THEN TRUE
    ELSE IF Caught(JWT(token)) THEN TRUE
    ELSE IF Truthy(expOf(JWT(token))) THEN expOf(JWT(token)) < t
    ELSE FALSE

fiveMinutes == 5 * 60

isTokenExpiringSoon(token, t) ==
    IF token = "" THEN TRUE
    ELSE IF JWT(token).parts # 3 THEN TRUE
    ELSE IF Caught(JWT(token)) THEN TRUE
    ELSE IF Truthy(expOf(JWT(token))) THEN expOf(JWT(token)) < t + fiveMinutes
    ELSE FALSE

(* ------------------------------ messages ------------------------------- *)
MsgChoose     == "choose a login method"
MsgPlease     == "please log in first"
MsgExpired    == "login expired, please log in again"
MsgAuthFailed == "authentication failed, please log in again"
MsgLoggedOut  == "logged out"
NoMsg         == ""

(* --------------------------- requests / headers ------------------------ *)
NoHdr == [scheme |-> "none", val |-> ""]
Bearer(t) == [scheme |-> "Bearer", val |-> t]
CallerVal(v) == [scheme |-> "caller", val |-> v]
CsrfVal(c) == [scheme |-> "csrf", val |-> c]

\* the headers object: the three keys the code reads or writes
Hdrs(a, X, x) == [Authorization |-> a, XCSRFToken |-> X, xcsrftoken |-> x]

\* what callers put under those keys: nothing, their own Authorization, their
\* own CSRF token under either spelling
CallerHeaders ==
    { Hdrs(NoHdr, NoHdr, NoHdr),
      Hdrs(CallerVal("other-auth"), NoHdr, NoHdr),
      Hdrs(NoHdr, CallerVal("own-csrf"), NoHdr),
      Hdrs(CallerVal("other-auth"), NoHdr, CallerVal("own-csrf")) }

Methods == {"", "GET", "POST", "put", "DELETE", "patch"}

toUpperCase(m) ==
    CASE m = "put" -> "PUT"
      [] m = "patch" -> "PATCH"
      [] OTHER -> m

MutatingMethods == {"POST", "PUT", "DELETE", "PATCH"}

\* const method = (options.method || 'GET').toUpperCase()
MethodOf(options) == toUpperCase(IF options.method = "" THEN "GET" ELSE options.method)

\* the calls the model makes: every verb in both spellings of the guard, and
\* every caller header with a non-mutating and a mutating verb
Requests ==
    [method : Methods, headers : {Hdrs(NoHdr, NoHdr, NoHdr)}]
    \cup [method : {"GET", "POST"}, headers : CallerHeaders]

(* ------------------------------ responses ------------------------------ *)
ServerMsgs == {"session expired", "CSRF token invalid", "csrf mismatch", "forbidden"}
CsrfMarked == {"CSRF token invalid", "csrf mismatch"}

Statuses == {200, 401, 403, 500}

\* json = FALSE: the body is not JSON (response.clone().json() rejects)
Responses ==
    [status : Statuses, json : {TRUE}, detail : {NoMsg, "session expired"},
     error : {NoMsg} \cup (ServerMsgs \ {"session expired"})]
    \cup [status : Statuses, json : {FALSE}, detail : {NoMsg}, error : {NoMsg}]

NoResponse == [status |-> 0, json |-> FALSE, detail |-> NoMsg, error |-> NoMsg]

\* (mutant) every status below 500 counts as ok
ok_Below500(r) == r.status < 500

\* response.ok
ok(r) == r.status >= 200 /\ r.status <= 299

\* (mutant) any 403 body with an error field counts as a CSRF failure
IsCsrfError_AnyError(r) == r.json /\ r.error # NoMsg

\* errorData.error && (errorData.error.includes('CSRF') || ...includes('csrf'))
IsCsrfError(r) == r.json /\ r.error # NoMsg /\ r.error \in CsrfMarked

\* (mutant) the error field is preferred to detail
ErrorMessage_ErrorFirst(r) ==
    IF r.json /\ r.error # NoMsg THEN r.error
    ELSE IF r.json /\ r.detail # NoMsg THEN r.detail
    ELSE MsgAuthFailed

\* errorData.detail || errorData.error, else the generic message
ErrorMessage(r) ==
    IF r.json /\ r.detail # NoMsg THEN r.detail
    ELSE IF r.json /\ r.error # NoMsg THEN r.error
    ELSE MsgAuthFailed

\* (mutant) every error status counts as an authentication failure
IsAuthFailure_AnyError(r) == r.status >= 400

\* response.status === 401 || response.status === 403
IsAuthFailure(r) == r.status = 401 \/ r.status = 403

\* what GET /csrf-token can come back with: a token, an OK body without
\* csrf_token (""), a non-OK status, or a transport failure
CsrfTokens == {"c1", "c2"}
CsrfOutcomes == [kind : {"ok"}, csrf : CsrfTokens \cup {""}]
                \cup [kind : {"notok", "transport"}, csrf : {""}]

(* ------------------------------- state --------------------------------- *)
VARIABLES
    adminToken,      \* localStorage['adminToken'] ("" = absent)
    csrfTokenCache,  \* let csrfTokenCache ("" = null)
    modal,           \* #login-required-modal: [shown, message, count]
    now,             \* Math.floor(Date.now() / 1000)
    pc,              \* per handler: where it is suspended
    options,         \* per call: the options argument
    token,           \* per call: const token = getAdminToken()
    headers,         \* per call: const headers
    csrfRet,         \* per call: what the awaited getCsrfToken() resolved to
    response,        \* per call: const response (the first response)
    log,             \* per call in flight: what it has done so far
    last,            \* the call that ended in the last step, if one did
    nCalls,          \* adminFetch calls started so far
    nCsrfFetch,      \* GET /csrf-token requests issued so far
    nInvalidate,     \* clearCsrfToken() calls so far
    url,             \* window.location.search: [token, access_token, admin_login]
    apiCache,        \* const apiCache = new Map(): key -> [data, timestamp]
    pendingRequests, \* const pendingRequests = new Map(): key -> promise
    cached           \* per cachedAdminFetch call: where it is and its locals

vars == <<adminToken, csrfTokenCache, modal, now, pc, options, token, headers,
          csrfRet, response, log, last, nCalls, nCsrfFetch, nInvalidate,
          url, apiCache, pendingRequests, cached>>

\* the query string and the script's request cache
pageVars == <<url, apiCache, pendingRequests, cached>>

\* the part of the state that the synchronous helpers read and write
Session == [tok |-> adminToken, csrf |-> csrfTokenCache, modal |-> modal,
            inval |-> nInvalidate]

\* count = the number of #login-required-modal elements in the document
NoModal == [shown |-> FALSE, message |-> NoMsg, count |-> 0]

getAdminToken(S) == S.tok

\* (mutant) the cache is not dropped
clearCsrfToken_Noop(S) == [S EXCEPT !.inval = @ + 1]

clearCsrfToken(S) == [S EXCEPT !.csrf = "", !.inval = @ + 1]

\* (mutant) the token is stored but the CSRF cache is kept
setAdminToken_KeepsCsrf(S, t) == clearCsrfToken_Noop([S EXCEPT !.tok = t])

\* both branches of setAdminToken end with clearCsrfToken()
setAdminToken(S, t) == clearCsrfToken([S EXCEPT !.tok = t])

\* (mutant) no look for an existing prompt: another one is appended
showLoginRequired_Stacks(S, message) ==
    [S EXCEPT !.modal = [shown |-> TRUE, message |-> message,
                         count |-> S.modal.count + 1]]

showLoginRequired(S, message) ==
    IF S.modal.shown
    THEN IF message # MsgChoose
         THEN [S EXCEPT !.modal.message = message]
         ELSE S
    ELSE [S EXCEPT !.modal = [shown |-> TRUE, message |-> message,
                              count |-> S.modal.count + 1]]

forceLogout(S, reason) == showLoginRequired(setAdminToken(S, ""), reason)

\* (mutant) an expired token is refused but not cleared
checkTokenStatus_NoTeardown(S, t) ==
    IF getAdminToken(S) # ""
    THEN IF isTokenExpired(getAdminToken(S), t)
         THEN [ret |-> FALSE, S |-> S, fl |-> 0]
         ELSE [ret |-> TRUE, S |-> S, fl |-> 0]
    ELSE [ret |-> FALSE,
          S |-> IF ~S.modal.shown THEN showLoginRequired(S, MsgPlease) ELSE S,
          fl |-> 0]

\* checkTokenStatus: ret = the boolean it returns, S = the session after,
\* fl = the number of forceLogout calls it made
checkTokenStatus(S, t) ==
    IF getAdminToken(S) # ""
    THEN IF isTokenExpired(getAdminToken(S), t)
         THEN [ret |-> FALSE, S |-> forceLogout(S, MsgExpired), fl |-> 1]
         ELSE [ret |-> TRUE, S |-> S, fl |-> 0]
    ELSE [ret |-> FALSE,
          S |-> IF ~S.modal.shown THEN showLoginRequired(S, MsgPlease) ELSE S,
          fl |-> 0]

Commit(S) ==
    /\ adminToken' = S.tok
    /\ csrfTokenCache' = S.csrf
    /\ modal' = S.modal
    /\ nInvalidate' = S.inval

(* --------------------------- observation log --------------------------- *)
NoHeaders == Hdrs(NoHdr, NoHdr, NoHdr)

\* one thing a call did: ev = "check" (the local check; tok = the stored
\* token it found), "csrf_fetch" / "target" (a network call
\* with these headers; tok = the token stored when it went out),
\* "csrf_cached" (getCsrfToken answered without the network),
\* "forceLogout" (with msg)
Ev(kind, h, m, tk) == [ev |-> kind, headers |-> h, msg |-> m, tok |-> tk]

NoOptions == [method |-> "", headers |-> NoHeaders]

\* how a call ended: kind = "return" (which = "initial" or "retry" tells the
\* response returned), "throw_login", "throw_auth" (msg), "throw_transport";
\* status = the status of the response that arrived in its last step (0 if
\* the step was not the arrival of a response)
NoLast == [p |-> "", options |-> NoOptions, log |-> <<>>, kind |-> "none",
           which |-> "", status |-> 0, msg |-> NoMsg]
Ended(p, lg, kind, which, status, msg) ==
    [p |-> p, options |-> options[p], log |-> lg, kind |-> kind,
     which |-> which, status |-> status, msg |-> msg]

\* window.location.search of a page address without a query string
NoUrl == [token |-> "", access_token |-> "", admin_login |-> ""]

\* a Map with keys that are strings
NoMap == [x \in {} |-> 0]
has(map, key) == key \in DOMAIN map
set(map, key, v) ==
    [x \in (DOMAIN map) \cup {key} |-> IF x = key THEN v ELSE map[x]]
delete(map, key) == [x \in (DOMAIN map) \ {key} |-> map[x]]

\* the cachedAdminFetch calls that can be in flight together, and the
\* adminFetch call each of them makes
CachedCalls == {"k1", "k2"}
ProcOf(k) == IF k = "k1" THEN "p1" ELSE "p2"

\* a cachedAdminFetch call: pc = "idle" (not running), "waiting" (on its own
\* adminFetch), "reading" (on response.clone().json()), "dedup" (on the
\* promise found in pendingRequests, made by the call `on`); cacheKey,
\* useCache, now = its locals; status = the status of its response;
\* cleared = clearApiCache() has run since it called adminFetch
NoCachedCall == [pc |-> "idle", cacheKey |-> "", useCache |-> FALSE, now |-> 0,
                 on |-> "", status |-> 0, cleared |-> FALSE]

\* the page is loaded, nothing is in flight
Loaded ==
    /\ url = NoUrl
    /\ apiCache = NoMap
    /\ pendingRequests = NoMap
    /\ cached = [k \in CachedCalls |-> NoCachedCall]
    /\ csrfTokenCache = ""
    /\ modal = NoModal
    /\ pc = [p \in Handlers |-> "idle"]
    /\ options = [p \in Procs |-> NoOptions]
    /\ token = [p \in Procs |-> ""]
    /\ headers = [p \in Procs |-> NoHeaders]
    /\ csrfRet = [p \in Procs |-> ""]
    /\ response = [p \in Procs |-> NoResponse]
    /\ log = [p \in Procs |-> <<>>]
    /\ last = NoLast
    /\ nCalls = 0
    /\ nCsrfFetch = 0
    /\ nInvalidate = 0

Init ==
    /\ adminToken \in TokenPool \cup {""}
    /\ now = 2
    /\ Loaded

(* ------------------------------ getCsrfToken --------------------------- *)
\* The synchronous head of getCsrfToken(): a cache hit or a missing bearer
\* token resolves at once, otherwise GET /csrf-token goes out.
getCsrfToken(S) ==
    IF S.csrf # "" THEN [kind |-> "cached", val |-> S.csrf]
    ELSE IF getAdminToken(S) = "" THEN [kind |-> "null", val |-> ""]
    ELSE [kind |-> "net", val |-> ""]

\* adminFetch call p calls getCsrfToken() in session S and suspends on it;
\* k = "1" before the initial request, "2" before the retry
AwaitCsrfToken(p, k, S, lg) ==
    LET g == getCsrfToken(S) IN
    /\ Commit(S)
    /\ csrfRet' = [csrfRet EXCEPT ![p] = g.val]
    /\ IF g.kind = "net"
       THEN /\ pc' = [pc EXCEPT ![p] = IF k = "1" THEN "csrf_net_1" ELSE "csrf_net_2"]
            /\ nCsrfFetch' = nCsrfFetch + 1
            /\ log' = [log EXCEPT ![p] = Append(lg,
                  Ev("csrf_fetch", Hdrs(Bearer(getAdminToken(S)), NoHdr, NoHdr),
                     NoMsg, S.tok))]
       ELSE /\ pc' = [pc EXCEPT ![p] = IF k = "1" THEN "csrf_val_1" ELSE "csrf_val_2"]
            /\ nCsrfFetch' = nCsrfFetch
            /\ log' = [log EXCEPT ![p] = Append(lg,
                  Ev("csrf_cached", NoHeaders, NoMsg, ""))]

\* (mutant) the call never settles: its effects happen, it stays where it is
Finish_NeverSettles(p, S, lg, kind, which, status, msg) ==
    /\ Commit(S)
    /\ last' = NoLast
    /\ UNCHANGED <<pc, options, token, headers, csrfRet, response, log>>

\* the call ends: its locals go away, `last` tells how it went
Finish(p, S, lg, kind, which, status, msg) ==
    /\ Commit(S)
    /\ pc' = [pc EXCEPT ![p] = "idle"]
    /\ options' = [options EXCEPT ![p] = NoOptions]
    /\ token' = [token EXCEPT ![p] = ""]
    /\ headers' = [headers EXCEPT ![p] = NoHeaders]
    /\ csrfRet' = [csrfRet EXCEPT ![p] = ""]
    /\ response' = [response EXCEPT ![p] = NoResponse]
    /\ log' = [log EXCEPT ![p] = <<>>]
    /\ last' = Ended(p, lg, kind, which, status, msg)

\* lines 282-297: 401/403 handling with the first response r
\* (st = the status of the response that has just arrived, 0 if none has)
Teardown(p, r, st) ==
    LET S == forceLogout(Session, ErrorMessage(r)) IN
    Finish(p, S, Append(log[p], Ev("forceLogout", NoHeaders, ErrorMessage(r), "")),
           "throw_auth", "", st, ErrorMessage(r))

(* ------------------------------- adminFetch ---------------------------- *)
\* (mutant) the spread comes last, so the caller's Authorization wins
BuildHeaders_CallerWins(o, tok) ==
    IF o.headers.Authorization # NoHdr
    THEN o.headers
    ELSE [o.headers EXCEPT !.Authorization = Bearer(tok)]

\* const headers = { ...options.headers, 'Authorization': `Bearer ${token}` }
BuildHeaders(o, tok) == [o.headers EXCEPT !.Authorization = Bearer(tok)]

IsMutating(o) == MethodOf(o) \in MutatingMethods

\* (mutant) only the canonical spelling is looked at
CallerCsrf_CanonicalOnly(h) == h.XCSRFToken # NoHdr

\* !(!headers['X-CSRF-Token'] && !headers['x-csrf-token'])
CallerCsrf(h) == h.XCSRFToken # NoHdr \/ h.xcsrftoken # NoHdr

\* adminFetch(url, options) up to its first await (lines 215-253)
AdminFetchCall(p, o) ==
    /\ pc[p] = "idle"
    /\ nCalls' = nCalls + 1
    /\ UNCHANGED now
    /\ LET c == checkTokenStatus(Session, now)
           tok == getAdminToken(c.S)
           h == BuildHeaders(o, tok)
           lg0 == <<Ev("check", NoHeaders, NoMsg, adminToken)>>
           lg1 == IF c.fl = 1
                  THEN Append(lg0, Ev("forceLogout", NoHeaders, MsgExpired, ""))
                  ELSE lg0
       IN IF ~c.ret
          THEN /\ Commit(c.S)
               /\ last' = [Ended(p, lg1, "throw_login", "", 0, "login required")
                             EXCEPT !.options = o]
               /\ UNCHANGED <<pc, options, token, headers, csrfRet, response,
                              log, nCsrfFetch>>
          ELSE /\ options' = [options EXCEPT ![p] = o]
               /\ token' = [token EXCEPT ![p] = tok]
               /\ headers' = [headers EXCEPT ![p] = h]
               /\ response' = [response EXCEPT ![p] = NoResponse]
               /\ last' = NoLast
               /\ IF IsMutating(o) /\ ~CallerCsrf(h)
                  THEN AwaitCsrfToken(p, "1", c.S, lg1)
                  ELSE /\ Commit(c.S)
                       /\ csrfRet' = [csrfRet EXCEPT ![p] = ""]
                       /\ pc' = [pc EXCEPT ![p] = "fetch_1"]
                       /\ log' = [log EXCEPT ![p] =
                             Append(lg1, Ev("target", h, NoMsg, c.S.tok))]
                       /\ nCsrfFetch' = nCsrfFetch

\* a call of adminFetch itself, past the request cache
AdminFetch(p, o) == AdminFetchCall(p, o) /\ UNCHANGED pageVars

\* GET /csrf-token comes back (lines 101-109); the caller resumes next
CsrfResponds(p, r) ==
    /\ pc[p] \in {"csrf_net_1", "csrf_net_2"}
    /\ pc' = [pc EXCEPT ![p] = IF pc[p] = "csrf_net_1" THEN "csrf_val_1" ELSE "csrf_val_2"]
    /\ IF r.kind = "ok"
       THEN /\ csrfTokenCache' = r.csrf
            /\ csrfRet' = [csrfRet EXCEPT ![p] = r.csrf]
       ELSE /\ csrfTokenCache' = csrfTokenCache
            /\ csrfRet' = [csrfRet EXCEPT ![p] = ""]
    /\ last' = NoLast
    /\ UNCHANGED <<adminToken, modal, now, options, token, headers, response,
                   log, nCalls, nCsrfFetch, nInvalidate>>
    /\ UNCHANGED pageVars

\* lines 246-253: attach the CSRF token if there is one, send the request
SendInitial(p) ==
    /\ pc[p] = "csrf_val_1"
    /\ LET h == IF csrfRet[p] # ""
                THEN [headers[p] EXCEPT !.XCSRFToken = CsrfVal(csrfRet[p])]
                ELSE headers[p]
       IN /\ headers' = [headers EXCEPT ![p] = h]
          /\ log' = [log EXCEPT ![p] = Append(@, Ev("target", h, NoMsg, adminToken))]
    /\ pc' = [pc EXCEPT ![p] = "fetch_1"]
    /\ last' = NoLast
    /\ UNCHANGED <<adminToken, csrfTokenCache, modal, now, options, token,
                   csrfRet, response, nCalls, nCsrfFetch, nInvalidate>>
    /\ UNCHANGED pageVars

\* the first response arrives (lines 253-299)
FetchResponds(p, r) ==
    /\ pc[p] = "fetch_1"
    /\ UNCHANGED <<now, nCalls>>
    /\ IF r.status = 403 /\ IsCsrfError(r)
       THEN /\ response' = [response EXCEPT ![p] = r]
            /\ AwaitCsrfToken(p, "2", clearCsrfToken(Session), log[p])
            /\ last' = NoLast
            /\ UNCHANGED <<options, token, headers>>
       ELSE /\ nCsrfFetch' = nCsrfFetch
            /\ IF IsAuthFailure(r)
               THEN Teardown(p, r, r.status)
               ELSE Finish(p, Session, log[p], "return", "initial", r.status, NoMsg)
    /\ UNCHANGED pageVars

\* fetch(fullUrl) rejects: the error propagates (lines 300-308)
FetchFails(p) ==
    /\ pc[p] = "fetch_1"
    /\ Finish(p, Session, log[p], "throw_transport", "", 0, NoMsg)
    /\ UNCHANGED <<now, nCalls, nCsrfFetch>>
    /\ UNCHANGED pageVars

\* lines 263-270: retry with the fresh CSRF token, or fall through
SendRetry(p) ==
    /\ pc[p] = "csrf_val_2"
    /\ UNCHANGED <<now, nCalls, nCsrfFetch>>
    /\ IF csrfRet[p] # ""
       THEN LET retryHeaders == [options[p].headers EXCEPT
                                   !.Authorization = Bearer(token[p]),
                                   !.XCSRFToken = CsrfVal(csrfRet[p])]
            IN /\ log' = [log EXCEPT ![p] =
                     Append(@, Ev("target", retryHeaders, NoMsg, adminToken))]
               /\ pc' = [pc EXCEPT ![p] = "fetch_2"]
               /\ last' = NoLast
               /\ UNCHANGED <<adminToken, csrfTokenCache, modal, options, token,
                              headers, csrfRet, response, nInvalidate>>
       ELSE Teardown(p, response[p], 0)
    /\ UNCHANGED pageVars

\* the retry response arrives (lines 270-297)
RetryResponds(p, r) ==
    /\ pc[p] = "fetch_2"
    /\ UNCHANGED <<now, nCalls, nCsrfFetch>>
    /\ IF ok(r)
       THEN Finish(p, Session, log[p], "return", "retry", r.status, NoMsg)
       ELSE Teardown(p, response[p], r.status)
    /\ UNCHANGED pageVars

\* the retry fetch rejects: catch (e) at line 276 swallows it
RetryFails(p) ==
    /\ pc[p] = "fetch_2"
    /\ UNCHANGED <<now, nCalls, nCsrfFetch>>
    /\ Teardown(p, response[p], 0)
    /\ UNCHANGED pageVars

(* --------------------------- other handlers ---------------------------- *)
CallsUnchanged == UNCHANGED <<pc, options, token, headers, csrfRet, response,
                              log, nCalls, nCsrfFetch>>

\* setInterval(() => checkTokenStatus(), 30000); a tick that changes nothing
\* is not a step
MonitorTick ==
    /\ checkTokenStatus(Session, now).S # Session
    /\ Commit(checkTokenStatus(Session, now).S)
    /\ last' = NoLast
    /\ UNCHANGED now
    /\ CallsUnchanged
    /\ UNCHANGED pageVars

\* logout(), the user confirms; the button is on the page, which the login
\* prompt covers while it is shown
Logout ==
    /\ ~modal.shown
    /\ Commit(showLoginRequired(setAdminToken(Session, ""), MsgLoggedOut))
    /\ last' = NoLast
    /\ UNCHANGED now
    /\ CallsUnchanged
    /\ UNCHANGED pageVars

\* the clock advances
Tick ==
    /\ now < MaxNow
    /\ now' = now + 1
    /\ last' = NoLast
    /\ UNCHANGED <<adminToken, csrfTokenCache, modal, nInvalidate>>
    /\ CallsUnchanged
    /\ UNCHANGED pageVars

(* ------------------------------ login form ---------------------------- *)
\* what POST /admin/auth/login can come back with: an OK body with an
\* access_token (usable, already expired, or absent), a non-OK status (whose
\* body may carry an access_token all the same), a body that is not JSON, a
\* transport failure
LoginTokens == {"A", "E"}
LoginOutcomes == [kind : {"ok"}, access_token : LoginTokens \cup {""}]
                 \cup [kind : {"notok"}, access_token : {"", "A"}]
                 \cup [kind : {"notjson", "transport"}, access_token : {""}]

\* (mutant) any body with an access_token counts as a successful login
LoginSucceeded_AnyToken(r) == r.access_token # ""

\* if (response.ok && data.access_token) (line 467)
LoginSucceeded(r) == r.kind = "ok" /\ r.access_token # ""

\* the error text shown in the form
LoginError(why) == [NoLast EXCEPT !.kind = "login_error", !.which = why]

\* the page after a (re)load: the document and the script state are fresh,
\* localStorage is kept; DOMContentLoaded runs checkAdminAuth (no token in the
\* URL) and then checkTokenStatus again
PageLoad(S, t) ==
    LET fresh == [S EXCEPT !.csrf = "", !.modal = NoModal]
    IN checkTokenStatus(checkTokenStatus(fresh, t).S, t).S

\* the submit button of the login form, with an e-mail and a password typed
\* in (lines 446-463); the form is part of the login prompt
LoginSubmit ==
    /\ modal.shown
    /\ pc[LoginForm] = "idle"
    /\ nInvalidate < MaxInvalidate
    /\ pc' = [pc EXCEPT ![LoginForm] = "fetch"]
    /\ last' = NoLast
    /\ UNCHANGED <<adminToken, csrfTokenCache, modal, now, options, token,
                   headers, csrfRet, response, log, nCalls, nCsrfFetch,
                   nInvalidate>>
    /\ UNCHANGED pageVars

\* the submit button with the e-mail or the password left empty (lines
\* 447-455): the form shows an error and nothing is sent
LoginSubmitEmpty ==
    /\ modal.shown
    /\ pc[LoginForm] = "idle"
    /\ last' = LoginError("empty")
    /\ UNCHANGED <<adminToken, csrfTokenCache, modal, now, pc, options, token,
                   headers, csrfRet, response, log, nCalls, nCsrfFetch,
                   nInvalidate>>
    /\ UNCHANGED pageVars

\* the login response arrives (lines 465-488); a failed login shows its error
\* in the form and changes nothing else
LoginResponds(r) ==
    /\ pc[LoginForm] = "fetch"
    /\ UNCHANGED <<now, options, token, headers, csrfRet, response, log, nCalls>>
    /\ IF LoginSucceeded(r)
       THEN LET S == setAdminToken(Session, r.access_token)
                g == getCsrfToken(S)
            IN /\ Commit(S)
               /\ last' = NoLast
               /\ IF g.kind = "net"
                  THEN /\ pc' = [pc EXCEPT ![LoginForm] = "csrf_net"]
                       /\ nCsrfFetch' = nCsrfFetch + 1
                  ELSE /\ pc' = [pc EXCEPT ![LoginForm] = "csrf_val"]
                       /\ nCsrfFetch' = nCsrfFetch
       ELSE /\ pc' = [pc EXCEPT ![LoginForm] = "idle"]
            /\ last' = LoginError(r.kind)
            /\ UNCHANGED <<adminToken, csrfTokenCache, modal, nInvalidate,
                           nCsrfFetch>>
    /\ UNCHANGED pageVars

\* the GET /csrf-token of the login handler comes back (lines 101-109)
LoginCsrfResponds(r) ==
    /\ pc[LoginForm] = "csrf_net"
    /\ pc' = [pc EXCEPT ![LoginForm] = "csrf_val"]
    /\ csrfTokenCache' = IF r.kind = "ok" THEN r.csrf ELSE csrfTokenCache
    /\ last' = NoLast
    /\ UNCHANGED <<adminToken, modal, now, options, token, headers, csrfRet,
                   response, log, nCalls, nCsrfFetch, nInvalidate>>
    /\ UNCHANGED pageVars

\* modal.remove(); location.reload() (lines 478-479): the page goes away with
\* every call in flight and loads again
LoginReload ==
    /\ pc[LoginForm] = "csrf_val"
    /\ Commit(PageLoad(Session, now))
    /\ pc' = [p \in Handlers |-> "idle"]
    /\ options' = [p \in Procs |-> NoOptions]
    /\ token' = [p \in Procs |-> ""]
    /\ headers' = [p \in Procs |-> NoHeaders]
    /\ csrfRet' = [p \in Procs |-> ""]
    /\ response' = [p \in Procs |-> NoResponse]
    /\ log' = [p \in Procs |-> <<>>]
    /\ last' = NoLast
    /\ UNCHANGED <<now, nCalls, nCsrfFetch, url>>
    /\ apiCache' = NoMap
    /\ pendingRequests' = NoMap
    /\ cached' = [k \in CachedCalls |-> NoCachedCall]

(* ------------------------------ page load ----------------------------- *)
\* the query strings the page is opened with: ?token= or ?access_token= from
\* the OAuth callback (a usable token, an expired one), ?admin_login=
Urls == [token : {"", "F", "E"}, access_token : {"", "G"},
         admin_login : {"", "1"}]

\* (mutant) only the parameter `token` is read
tokenFromUrl_TokenOnly(u) == u.token

\* urlParams.get('token') || urlParams.get('access_token') (line 502)
tokenFromUrl(u) == IF u.token # "" THEN u.token ELSE u.access_token

\* a document that has just been fetched: no script has run, nothing is in
\* flight; localStorage is what it was
FreshPage ==
    /\ csrfTokenCache' = ""
    /\ modal' = NoModal
    /\ pc' = [h \in Handlers |-> IF h = Page THEN "loading" ELSE "idle"]
    /\ options' = [p \in Procs |-> NoOptions]
    /\ token' = [p \in Procs |-> ""]
    /\ headers' = [p \in Procs |-> NoHeaders]
    /\ csrfRet' = [p \in Procs |-> ""]
    /\ response' = [p \in Procs |-> NoResponse]
    /\ log' = [p \in Procs |-> <<>>]
    /\ apiCache' = NoMap
    /\ pendingRequests' = NoMap
    /\ cached' = [k \in CachedCalls |-> NoCachedCall]
    /\ last' = NoLast

\* the browser opens the dashboard at an address with query string u, once
\* the page it shows has loaded
Navigate(u) ==
    /\ pc[Page] = "idle"
    /\ nInvalidate < MaxInvalidate
    /\ url' = u
    /\ FreshPage
    /\ UNCHANGED <<adminToken, now, nCalls, nCsrfFetch, nInvalidate>>

\* DOMContentLoaded (lines 627-648): checkAdminAuth() up to its await (lines
\* 500-512) or, when it returns at once (lines 522-532), with the .then
\* callback, which calls checkTokenStatus() (line 644)
DomContentLoaded ==
    /\ pc[Page] = "loading"
    /\ last' = NoLast
    /\ UNCHANGED <<now, options, token, headers, csrfRet, response, log, nCalls>>
    /\ UNCHANGED pageVars
    /\ IF tokenFromUrl(url) # ""
       THEN LET S == setAdminToken(Session, tokenFromUrl(url))
                g == getCsrfToken(S)
            IN /\ Commit(S)
               /\ IF g.kind = "net"
                  THEN /\ pc' = [pc EXCEPT ![Page] = "csrf_net"]
                       /\ nCsrfFetch' = nCsrfFetch + 1
                  ELSE /\ pc' = [pc EXCEPT ![Page] = "csrf_val"]
                       /\ nCsrfFetch' = nCsrfFetch
       ELSE /\ pc' = [pc EXCEPT ![Page] = "idle"]
            /\ nCsrfFetch' = nCsrfFetch
            /\ IF url.admin_login # ""
               THEN Commit(checkTokenStatus(Session, now).S)
               ELSE Commit(checkTokenStatus(checkTokenStatus(Session, now).S,
                                            now).S)

\* the GET /csrf-token of checkAdminAuth comes back (lines 101-109, 512)
LoadCsrfResponds(r) ==
    /\ pc[Page] = "csrf_net"
    /\ pc' = [pc EXCEPT ![Page] = "csrf_val"]
    /\ csrfTokenCache' = IF r.kind = "ok" THEN r.csrf ELSE csrfTokenCache
    /\ last' = NoLast
    /\ UNCHANGED <<adminToken, modal, now, options, token, headers, csrfRet,
                   response, log, nCalls, nCsrfFetch, nInvalidate>>
    /\ UNCHANGED pageVars

\* history.replaceState(..., pathname); location.reload(); return (lines
\* 517-519), and the .then callback with its checkTokenStatus() (line 644);
\* then the document is fetched again
LoadReload ==
    LET S == checkTokenStatus(Session, now).S IN
    /\ pc[Page] = "csrf_val"
    /\ url' = NoUrl
    /\ adminToken' = S.tok
    /\ nInvalidate' = S.inval
    /\ FreshPage
    /\ UNCHANGED <<now, nCalls, nCsrfFetch>>

(* ------------------- requests that do not use adminFetch -------------- *)
\* promoteToAdmin (lines 4523-4541), and in the same way the import upload
\* (lines 4876-4884): token = getAdminToken(), then fetch() itself with
\* method POST and Authorization: Bearer <token>.  The buttons are on the
\* page, which the login prompt covers while it is shown.
PromoteOptions == [method |-> "POST", headers |-> NoHeaders]

PromoteToAdmin ==
    /\ ~modal.shown
    /\ pc[Promote] = "idle"
    /\ pc' = [pc EXCEPT ![Promote] = "fetch"]
    /\ last' = [p |-> Promote, options |-> PromoteOptions,
                log |-> <<Ev("target",
                             Hdrs(Bearer(getAdminToken(Session)), NoHdr, NoHdr),
                             NoMsg, adminToken)>>,
                kind |-> "sent", which |-> "", status |-> 0, msg |-> NoMsg]
    /\ UNCHANGED <<adminToken, csrfTokenCache, modal, now, options, token,
                   headers, csrfRet, response, log, nCalls, nCsrfFetch,
                   nInvalidate>>
    /\ UNCHANGED pageVars

\* its response arrives: the handler reports success or the error text in an
\* alert or a toast, whatever the status
PromoteResponds(r) ==
    /\ pc[Promote] = "fetch"
    /\ pc' = [pc EXCEPT ![Promote] = "idle"]
    /\ last' = [p |-> Promote, options |-> PromoteOptions, log |-> <<>>,
                kind |-> "return", which |-> "initial", status |-> r.status,
                msg |-> NoMsg]
    /\ UNCHANGED <<adminToken, csrfTokenCache, modal, now, options, token,
                   headers, csrfRet, response, log, nCalls, nCsrfFetch,
                   nInvalidate>>
    /\ UNCHANGED pageVars

\* its fetch rejects: catch shows a toast
PromoteFails ==
    /\ pc[Promote] = "fetch"
    /\ pc' = [pc EXCEPT ![Promote] = "idle"]
    /\ last' = [p |-> Promote, options |-> PromoteOptions, log |-> <<>>,
                kind |-> "throw_transport", which |-> "", status |-> 0,
                msg |-> NoMsg]
    /\ UNCHANGED <<adminToken, csrfTokenCache, modal, now, options, token,
                   headers, csrfRet, response, log, nCalls, nCsrfFetch,
                   nInvalidate>>
    /\ UNCHANGED pageVars

(* ----------------------------- request cache -------------------------- *)
CACHE_DURATION == 30000

\* Date.now(), in milliseconds
DateNow(t) == t * 1000

\* the dashboard's loaders: cachedAdminFetch(`${API_BASE_URL}/admin/...`, {},
\* true); cacheKey = `${url}_${JSON.stringify(options)}`
CacheUrls == {"/admin/statistics", "/admin/orders"}
CacheOptions == [method |-> "", headers |-> NoHeaders]
CacheKey(u) == u

\* what the backend answers to these GETs
CacheResponses ==
    { r \in Responses :
        /\ r.status \in {200, 401, 500}
        /\ r.detail = NoMsg
        /\ r.error = NoMsg
        /\ ~r.json }

\* (mutant) an entry never ages
Fresh_Always(timestamp, t) == TRUE

\* now - cached.timestamp < CACHE_DURATION (line 22)
Fresh(timestamp, t) == DateNow(t) - DateNow(timestamp) < CACHE_DURATION

\* what a cachedAdminFetch call hands to its caller
CacheEnded(k, kind, key, status) ==
    [NoLast EXCEPT !.p = k, !.kind = kind, !.which = key, !.status = status]

\* the calls suspended on the promise that call k made
Awaiting(k) == {j \in CachedCalls : cached[j].pc = "dedup" /\ cached[j].on = k}

\* the promise of call k settles: the call and the calls awaiting it end
Settled(k) ==
    [j \in CachedCalls |->
        IF j = k \/ j \in Awaiting(k) THEN NoCachedCall ELSE cached[j]]

\* which way a cachedAdminFetch call goes (lines 18, 22, 37)
CachePath(cacheKey, useCache) ==
    IF /\ useCache
       /\ has(apiCache, cacheKey)
       /\ Fresh(apiCache[cacheKey].timestamp, now)
    THEN "hit"
    ELSE IF has(pendingRequests, cacheKey) THEN "pending" ELSE "fetch"

\* cachedAdminFetch(url, options, useCache) up to its first await (lines
\* 13-61).  A rejected adminFetch runs .catch right after the synchronous
\* pendingRequests.set (lines 53-56, 58).
CachedAdminFetch(k, u, useCache) ==
    LET cacheKey == CacheKey(u) IN
    /\ cached[k].pc = "idle"
    /\ UNCHANGED <<url, apiCache>>
    /\ IF CachePath(cacheKey, useCache) = "hit"
       THEN /\ last' = CacheEnded(k, "cache_hit", cacheKey, 200)
            /\ UNCHANGED <<adminToken, csrfTokenCache, modal, now, nInvalidate,
                           pendingRequests, cached>>
            /\ CallsUnchanged
       ELSE IF CachePath(cacheKey, useCache) = "pending"
       THEN /\ cached' = [cached EXCEPT ![k] =
                  [NoCachedCall EXCEPT !.pc = "dedup", !.cacheKey = cacheKey,
                                       !.useCache = useCache, !.now = now,
                                       !.on = pendingRequests[cacheKey]]]
            /\ last' = NoLast
            /\ UNCHANGED <<adminToken, csrfTokenCache, modal, now, nInvalidate,
                           pendingRequests>>
            /\ CallsUnchanged
       ELSE /\ AdminFetchCall(ProcOf(k), CacheOptions)
            /\ IF checkTokenStatus(Session, now).ret
               THEN /\ pendingRequests' = set(pendingRequests, cacheKey, k)
                    /\ cached' = [cached EXCEPT ![k] =
                          [NoCachedCall EXCEPT !.pc = "waiting",
                                               !.cacheKey = cacheKey,
                                               !.useCache = useCache,
                                               !.now = now]]
               ELSE /\ pendingRequests' =
                          delete(set(pendingRequests, cacheKey, k), cacheKey)
                    /\ UNCHANGED cached

\* the adminFetch call of a cachedAdminFetch call has just ended: its .then
\* or .catch callback is the next thing that runs
SettleDue(k) ==
    /\ cached[k].pc = "waiting"
    /\ last.p = ProcOf(k)
    /\ last.kind \in {"return", "throw_auth", "throw_transport"}

\* the .then callback up to its await (lines 43-46), or all of it (lines
\* 50-52), or the .catch callback (lines 53-56)
CachedSettles(k) ==
    /\ SettleDue(k)
    /\ UNCHANGED <<adminToken, csrfTokenCache, modal, now, nInvalidate, url,
                   apiCache>>
    /\ CallsUnchanged
    /\ IF last.kind = "return" /\ ok([status |-> last.status])
          /\ cached[k].useCache
       THEN /\ cached' = [cached EXCEPT ![k].pc = "reading",
                                        ![k].status = last.status]
            /\ last' = NoLast
            /\ UNCHANGED pendingRequests
       ELSE /\ pendingRequests' = delete(pendingRequests, cached[k].cacheKey)
            /\ cached' = Settled(k)
            /\ last' = CacheEnded(k, IF last.kind = "return"
                                       THEN "cached_return" ELSE "cached_throw",
                                  cached[k].cacheKey, last.status)

\* response.clone().json() settles (lines 46-52): the body is JSON and goes
\* into apiCache, or it is not and the promise rejects into .catch
CachedStore(k, json) ==
    /\ cached[k].pc = "reading"
    /\ UNCHANGED <<adminToken, csrfTokenCache, modal, now, nInvalidate, url>>
    /\ CallsUnchanged
    /\ apiCache' = IF json
                   THEN set(apiCache, cached[k].cacheKey,
                            [data |-> "json", timestamp |-> cached[k].now])
                   ELSE apiCache
    /\ pendingRequests' = delete(pendingRequests, cached[k].cacheKey)
    /\ cached' = Settled(k)
    /\ last' = CacheEnded(k, IF json THEN "cached_return" ELSE "cached_throw",
                          cached[k].cacheKey, cached[k].status)

\* the calls that clearApiCache() finds in flight
Cleared ==
    [k \in CachedCalls |->
        IF cached[k].pc \in {"waiting", "reading"}
        THEN [cached[k] EXCEPT !.cleared = TRUE] ELSE cached[k]]

\* refreshDashboard() (lines 1259-1262): clearApiCache() (lines 65-68)
RefreshDashboard ==
    /\ ~modal.shown
    /\ apiCache' = NoMap
    /\ pendingRequests' = NoMap
    /\ cached' = Cleared
    /\ last' = NoLast
    /\ UNCHANGED <<adminToken, csrfTokenCache, modal, now, nInvalidate, url>>
    /\ CallsUnchanged

\* refreshData() (lines 1105-1112): checkTokenStatus(), then clearApiCache()
RefreshData ==
    LET c == checkTokenStatus(Session, now) IN
    /\ ~modal.shown
    /\ Commit(c.S)
    /\ apiCache' = IF c.ret THEN NoMap ELSE apiCache
    /\ pendingRequests' = IF c.ret THEN NoMap ELSE pendingRequests
    /\ cached' = IF c.ret THEN Cleared ELSE cached
    /\ last' = NoLast
    /\ UNCHANGED <<now, url>>
    /\ CallsUnchanged

\* nothing happens on the page for a second less than the cache's lifetime
Sleep ==
    /\ now <= MaxNow
    /\ now' = now + (CACHE_DURATION \div 1000 - 1)
    /\ last' = NoLast
    /\ UNCHANGED <<adminToken, csrfTokenCache, modal, nInvalidate>>
    /\ CallsUnchanged
    /\ UNCHANGED pageVars

\* One caller: calls follow one another, each with every request and every
\* response the model knows, while the clock, the monitor and logout run.
Caller == "p1"

Next ==
    \/ \E o \in Requests : nCalls < MaxCalls /\ AdminFetch(Caller, o)
    \/ \E r \in CsrfOutcomes : CsrfResponds(Caller, r)
    \/ SendInitial(Caller)
    \/ \E r \in Responses : FetchResponds(Caller, r)
    \/ FetchFails(Caller)
    \/ SendRetry(Caller)
    \/ \E r \in Responses : RetryResponds(Caller, r)
    \/ RetryFails(Caller)
    \/ MonitorTick
    \/ Logout
    \/ Tick

Spec == Init /\ [][Next]_vars

\* Several callers: adminFetch calls overlap at their awaits.
ConcRequests ==
    { [method |-> "GET", headers |-> NoHeaders],
      [method |-> "POST", headers |-> NoHeaders] }

ConcResponses ==
    { r \in Responses :
        /\ r.status \in {200, 401, 403}
        /\ r.detail = NoMsg
        /\ r.error \in {NoMsg, "CSRF token invalid"}
        /\ r.json = (r.error # NoMsg) }

NextConc ==
    \/ \E p \in Procs, o \in ConcRequests : nCalls < MaxCalls /\ AdminFetch(p, o)
    \/ \E p \in Procs, r \in CsrfOutcomes : CsrfResponds(p, r)
    \/ \E p \in Procs : SendInitial(p)
    \/ \E p \in Procs, r \in ConcResponses : FetchResponds(p, r)
    \/ \E p \in Procs : FetchFails(p)
    \/ \E p \in Procs : SendRetry(p)
    \/ \E p \in Procs, r \in ConcResponses : RetryResponds(p, r)
    \/ \E p \in Procs : RetryFails(p)
    \/ MonitorTick
    \/ Logout
    \/ Tick

SpecConc == Init /\ [][NextConc]_vars

\* The session over time: one caller, the monitor, logout and the login form.
NextSession ==
    \/ \E o \in ConcRequests : nCalls < MaxCalls /\ AdminFetch(Caller, o)
    \/ \E r \in CsrfOutcomes : CsrfResponds(Caller, r)
    \/ SendInitial(Caller)
    \/ \E r \in ConcResponses : FetchResponds(Caller, r)
    \/ FetchFails(Caller)
    \/ SendRetry(Caller)
    \/ \E r \in ConcResponses : RetryResponds(Caller, r)
    \/ RetryFails(Caller)
    \/ MonitorTick
    \/ Logout
    \/ Tick
    \/ LoginSubmit
    \/ LoginSubmitEmpty
    \/ \E r \in LoginOutcomes : LoginResponds(r)
    \/ \E r \in CsrfOutcomes : LoginCsrfResponds(r)
    \/ LoginReload

SpecSession == Init /\ [][NextSession]_vars

\* The dashboard's loaders and its refresh buttons: cachedAdminFetch calls
\* overlap at their awaits, while the user refreshes and logs out and time
\* passes.  A .then / .catch callback that is due runs before anything else.
NoSettleDue == \A k \in CachedCalls : ~SettleDue(k)

NextCache ==
    \/ \E k \in CachedCalls, u \in CacheUrls, useCache \in BOOLEAN :
          /\ NoSettleDue
          /\ CachePath(CacheKey(u), useCache) = "fetch" => nCalls < MaxCalls
          /\ CachedAdminFetch(k, u, useCache)
    \/ \E k \in CachedCalls : CachedSettles(k)
    \/ \E k \in CachedCalls, json \in BOOLEAN : NoSettleDue /\ CachedStore(k, json)
    \/ \E p \in Procs, r \in CacheResponses : NoSettleDue /\ FetchResponds(p, r)
    \/ \E p \in Procs : NoSettleDue /\ FetchFails(p)
    \/ NoSettleDue /\ RefreshDashboard
    \/ NoSettleDue /\ RefreshData
    \/ NoSettleDue /\ Logout
    \/ NoSettleDue /\ Tick
    \/ NoSettleDue /\ Sleep

\* the dashboard is open with a token that stays valid; the session ends by
\* logout or by a 401
InitCache ==
    /\ adminToken = "F"
    /\ now = 2
    /\ Loaded

SpecCache == InitCache /\ [][NextCache]_vars

\* The page is opened at every address; once it has loaded, the monitor runs.
NextLoad ==
    \/ \E u \in Urls : Navigate(u)
    \/ DomContentLoaded
    \/ \E r \in CsrfOutcomes : LoadCsrfResponds(r)
    \/ LoadReload
    \/ pc[Page] = "idle" /\ MonitorTick
    \/ Logout
    \/ Tick

SpecLoad == Init /\ [][NextLoad]_vars

(* --------------------------- token inspection -------------------------- *)
\* isTokenExpired and isTokenExpiringSoon applied to the stored string at the
\* current time
Inspect ==
    /\ last' = [kind |-> "inspected", token |-> adminToken, at |-> now,
                expired |-> isTokenExpired(adminToken, now),
                soon |-> isTokenExpiringSoon(adminToken, now)]
    /\ UNCHANGED <<adminToken, csrfTokenCache, modal, now, nInvalidate>>
    /\ CallsUnchanged
    /\ UNCHANGED pageVars

\* any string stored, at any time; the clock and the monitor run
InitInspect ==
    /\ adminToken \in TokenStrings
    /\ now \in 0..MaxNow
    /\ Loaded

NextInspect ==
    \/ Inspect
    \/ MonitorTick
    \/ Tick

SpecInspect == InitInspect /\ [][NextInspect]_vars

\* One caller with plain requests, and every answer of the backend.
NextAnswers ==
    \/ \E o \in ConcRequests : nCalls < MaxCalls /\ AdminFetch(Caller, o)
    \/ \E r \in CsrfOutcomes : CsrfResponds(Caller, r)
    \/ SendInitial(Caller)
    \/ \E r \in Responses : FetchResponds(Caller, r)
    \/ FetchFails(Caller)
    \/ SendRetry(Caller)
    \/ \E r \in Responses : RetryResponds(Caller, r)
    \/ RetryFails(Caller)
    \/ MonitorTick
    \/ Logout
    \/ Tick

SpecAnswers == Init /\ [][NextAnswers]_vars

\* the next step of a call in flight: the network call it waits for resolves
\* or rejects, or the continuation after a settled await runs
Progress(p) ==
    \/ \E r \in CsrfOutcomes : CsrfResponds(p, r)
    \/ SendInitial(p)
    \/ \E r \in Responses : FetchResponds(p, r)
    \/ FetchFails(p)
    \/ SendRetry(p)
    \/ \E r \in Responses : RetryResponds(p, r)
    \/ RetryFails(p)

\* the same, where every network call settles and the event loop runs every
\* continuation that is ready
SpecAnswersLive == Init /\ [][NextAnswers]_vars /\ WF_vars(Progress(Caller))

\* Every way the dashboard sends an authenticated request: adminFetch calls
\* of one caller, and the handlers that call fetch() themselves.
NextDirect ==
    \/ \E o \in ConcRequests : nCalls < MaxCalls /\ AdminFetch(Caller, o)
    \/ \E r \in CsrfOutcomes : CsrfResponds(Caller, r)
    \/ SendInitial(Caller)
    \/ \E r \in ConcResponses : FetchResponds(Caller, r)
    \/ FetchFails(Caller)
    \/ SendRetry(Caller)
    \/ \E r \in ConcResponses : RetryResponds(Caller, r)
    \/ RetryFails(Caller)
    \/ MonitorTick
    \/ Logout
    \/ Tick
    \/ PromoteToAdmin
    \/ \E r \in ConcResponses : PromoteResponds(r)
    \/ PromoteFails

SpecDirect == Init /\ [][NextDirect]_vars

\* The idle page: no adminFetch call; the clock, the monitor timer, logout
\* and the login form.  Time passes and setInterval keeps firing: a monitor
\* tick that is due does run.
NextIdle ==
    \/ MonitorTick
    \/ Logout
    \/ Tick
    \/ LoginSubmit
    \/ \E r \in LoginOutcomes : LoginResponds(r)
    \/ \E r \in CsrfOutcomes : LoginCsrfResponds(r)
    \/ LoginReload

SpecIdle == Init /\ [][NextIdle]_vars /\ WF_vars(MonitorTick) /\ WF_vars(Tick)

(* ============================== properties ============================= *)
IsTarget(e) == e.ev = "target"
IsNetCall(e) == e.ev \in {"target", "csrf_fetch"}
IsForceLogout(e) == e.ev = "forceLogout"
Targets(lg) == SelectSeq(lg, IsTarget)
NetCalls(lg) == SelectSeq(lg, IsNetCall)
ForceLogouts(lg) == SelectSeq(lg, IsForceLogout)

\* the calls whose logs a state holds: those in flight and the one just ended
Calls ==
    { [log |-> log[p], options |-> options[p]] : p \in {q \in Procs : pc[q] # "idle"} }
    \cup { [log |-> last.log, options |-> last.options] : x \in {y \in {1} : last.kind # "none"} }

\* C1: an adminFetch call made while the stored token is empty or expired
\* issues no network call (no CSRF-token fetch, no target request), throws,
\* leaves the login prompt shown and the stored token empty.
C1_NoTokenNoNetwork ==
    [][ (nCalls' = nCalls + 1 /\ (adminToken = "" \/ isTokenExpired(adminToken, now)))
          => /\ last'.kind = "throw_login"
             /\ NetCalls(last'.log) = <<>>
             /\ pc' = pc
             /\ nCsrfFetch' = nCsrfFetch
             /\ modal'.shown
             /\ adminToken' = "" ]_vars

\* a call that found an expired (non-empty) token and was refused
C1_Witness ==
    /\ last.kind = "throw_login"
    /\ last.log[1].tok # ""
    /\ adminToken = ""
    /\ modal.shown

\* C2: a call goes past the local check to the network with a token that
\* carries an exp claim (exp = now and exp = 0 included) only if now < exp
\* held at that check.
C2_UsableOnlyBeforeExp ==
    [][ (nCalls' = nCalls + 1 /\ pc'[Caller] # "idle" /\ JWT(adminToken).exp # NoExp)
          => now < JWT(adminToken).exp ]_vars

\* C3 as stated: every target request carries Authorization: Bearer <the
\* token stored when the call was made>, whatever the caller supplied; and
\* the initial request of a non-mutating call carries no X-CSRF-Token header
\* and no CSRF-token fetch precedes it.
C3_Original ==
    \A c \in Calls :
       /\ \A i \in 1..Len(c.log) :
             c.log[i].ev = "target" => c.log[i].headers.Authorization = Bearer(c.log[1].tok)
       /\ ~(toUpperCase(IF c.options.method = "" THEN "GET" ELSE c.options.method)
              \in {"POST", "PUT", "DELETE", "PATCH"})
          => \A i \in 1..Len(c.log) :
                (c.log[i].ev = "target" /\ Targets(SubSeq(c.log, 1, i - 1)) = <<>>)
                => /\ c.log[i].headers.XCSRFToken = NoHdr
                   /\ c.log[i].headers.xcsrftoken = NoHdr
                   /\ i = 2

\* C3 (amended): every target request carries Authorization: Bearer <the
\* token stored when the call was made>, whatever the caller supplied; and
\* the initial request of a non-mutating call goes out right after the local
\* check, with no CSRF-token fetch before it, carrying under X-CSRF-Token /
\* x-csrf-token exactly what the caller supplied (nothing if nothing).
C3_BearerAndNoCsrfOnGet ==
    \A c \in Calls :
       /\ \A i \in 1..Len(c.log) :
             c.log[i].ev = "target" => c.log[i].headers.Authorization = Bearer(c.log[1].tok)
       /\ ~(toUpperCase(IF c.options.method = "" THEN "GET" ELSE c.options.method)
              \in {"POST", "PUT", "DELETE", "PATCH"})
          => \A i \in 1..Len(c.log) :
                (c.log[i].ev = "target" /\ Targets(SubSeq(c.log, 1, i - 1)) = <<>>)
                => /\ c.log[i].headers.XCSRFToken = c.options.headers.XCSRFToken
                   /\ c.log[i].headers.xcsrftoken = c.options.headers.xcsrftoken
                   /\ i = 2

\* a GET with the caller's own Authorization header was sent and retried
C3_Witness ==
    /\ last.kind = "return"
    /\ last.options.method \in {"", "GET"}
    /\ last.options.headers.Authorization # NoHdr
    /\ Len(Targets(last.log)) = 2

\* C4: every mutating request sent without a caller-supplied CSRF header
\* carries an X-CSRF-Token header holding a CSRF token from the backend,
\* whatever the outcome of the CSRF-token fetch.
C4_MutatingCarriesCsrf ==
    \A c \in Calls :
       (IsMutating(c.options) /\ ~CallerCsrf(c.options.headers))
       => \A i \in 1..Len(c.log) :
             c.log[i].ev = "target"
             => /\ c.log[i].headers.XCSRFToken.scheme = "csrf"
                /\ c.log[i].headers.XCSRFToken.val \in CsrfTokens

C6_OneFetchPerInvalidation == nCsrfFetch <= 1 + nInvalidate

\* C7: at most one GET /csrf-token request is in flight at any time.
C7_CsrfFetchCoalesced ==
    Cardinality({p \in Procs : pc[p] \in {"csrf_net_1", "csrf_net_2"}}) <= 1

\* C8: when a mutating call got a CSRF-marked 403 first and 200 on the
\* retry, it returns the retry response, has requested the target exactly
\* twice, has not invoked forceLogout, has left the stored token unchanged in
\* every one of its steps, and its retry carries the CSRF token that a
\* GET /csrf-token issued after the rejection returned.
C8_CsrfRetrySucceeds ==
    [][ /\ (/\ pc[Caller] = "fetch_2" /\ pc'[Caller] = "idle"
              /\ last'.status = 200
              /\ MethodOf(options[Caller]) \in {"POST", "PUT", "DELETE", "PATCH"}
              /\ response[Caller].status = 403
              /\ response[Caller].error \in CsrfMarked)
             => /\ last'.kind = "return" /\ last'.which = "retry"
                /\ Len(Targets(last'.log)) = 2
                /\ ForceLogouts(last'.log) = <<>>
                /\ adminToken' = adminToken
                /\ LET lg == last'.log
                       n == Len(lg)
                   IN /\ lg[n].ev = "target"
                      /\ lg[n - 1].ev = "csrf_fetch"
                      /\ Targets(SubSeq(lg, 1, n - 2)) # <<>>
                      /\ csrfRet[Caller] \in CsrfTokens
                      /\ lg[n].headers.XCSRFToken = CsrfVal(csrfRet[Caller])
        /\ (pc'[Caller] # pc[Caller] /\ pc'[Caller] # "idle") => adminToken' = adminToken
      ]_vars

\* a POST was answered 200 on its retry
C8_Witness ==
    /\ last.kind = "return"
    /\ last.which = "retry"
    /\ last.options.method = "POST"
    /\ Len(Targets(last.log)) = 2
    /\ adminToken # ""

\* C9: a call requests the target at most twice, and is past its first
\* request only after a first response of status 403 whose error field
\* contains 'CSRF' or 'csrf'; after a 401, or a 403 without the marker, the
\* call ends without another request.
C9_AtMostOneRetry ==
    /\ \A c \in Calls : Len(Targets(c.log)) <= 2
    /\ \A p \in Procs :
          (pc[p] \in {"csrf_net_2", "csrf_val_2", "fetch_2"} \/ Len(Targets(log[p])) = 2)
          => /\ response[p].status = 403
             /\ response[p].json
             /\ response[p].error \in CsrfMarked

\* a call that made its retry has ended
C9_Witness ==
    /\ last.kind # "none"
    /\ Len(Targets(last.log)) = 2

\* the call that just ended tore the session down: l = last, tk = adminToken
TornDown(l, tk) ==
    /\ l.kind = "throw_auth"
    /\ Len(ForceLogouts(l.log)) = 1
    /\ tk = ""

\* C10: after a CSRF-marked 403, if no fresh CSRF token is obtained or the
\* retry response is not successful, the call invokes forceLogout exactly
\* once, the stored token is empty and the call throws; if the retry
\* response is successful the call returns it, forceLogout is not invoked
\* and the stored token is unchanged.
C10_RetryDecidesTeardown ==
    [][ /\ (pc[Caller] = "csrf_val_2" /\ pc'[Caller] # "csrf_val_2" /\ csrfRet[Caller] = "")
           => TornDown(last', adminToken')
        /\ (pc[Caller] = "fetch_2" /\ pc'[Caller] = "idle" /\ last'.status # 0)
             => IF last'.status >= 200 /\ last'.status <= 299
                THEN /\ last'.kind = "return" /\ last'.which = "retry"
                     /\ ForceLogouts(last'.log) = <<>>
                     /\ adminToken' = adminToken
                ELSE TornDown(last', adminToken')
      ]_vars

\* a retry was made, failed, and the session was torn down
C10_Witness ==
    /\ last.kind = "throw_auth"
    /\ Len(Targets(last.log)) = 2
    /\ Len(ForceLogouts(last.log)) = 1
    /\ adminToken = ""

\* the first response r of the caller's request arrives and ends the call
EndsOnFirst(r) ==
    /\ pc[Caller] = "fetch_1"
    /\ pc'[Caller] = "idle"
    /\ last'.status = r.status
    /\ FetchResponds(Caller, r)

\* C11: when a call's response has status 401 or 403 and the CSRF retry does
\* not recover it, the call invokes forceLogout exactly once, with the
\* message of the response body (detail, else error) when there is one and
\* the generic message otherwise; the stored token is then empty and the
\* call throws an error carrying that same message.
C11_AuthFailureTearsDown ==
    [][ /\ (pc[Caller] = "fetch_1" /\ pc'[Caller] = "idle")
           => \A r \in Responses :
             (r.status \in {401, 403} /\ EndsOnFirst(r))
             => /\ last'.kind = "throw_auth"
                /\ Len(ForceLogouts(last'.log)) = 1
                /\ last'.log[Len(last'.log)].ev = "forceLogout"
                /\ last'.log[Len(last'.log)].msg = last'.msg
                /\ last'.msg = (IF r.json /\ r.detail # NoMsg THEN r.detail
                                ELSE IF r.json /\ r.error # NoMsg THEN r.error
                                ELSE MsgAuthFailed)
                /\ adminToken' = ""
                /\ modal'.shown /\ modal'.message = last'.msg
        /\ (/\ pc[Caller] \in {"csrf_val_2", "fetch_2"}
            /\ pc'[Caller] = "idle"
            /\ last'.kind # "return")
           => /\ last'.kind = "throw_auth"
              /\ Len(ForceLogouts(last'.log)) = 1
              /\ last'.log[Len(last'.log)].msg = last'.msg
              /\ last'.msg = (IF response[Caller].detail # NoMsg
                              THEN response[Caller].detail
                              ELSE response[Caller].error)
              /\ adminToken' = ""
              /\ modal'.shown /\ modal'.message = last'.msg
      ]_vars

\* a 401 whose body is not JSON tore the session down with the generic message
C11_Witness ==
    /\ last.kind = "throw_auth"
    /\ last.status = 401
    /\ last.msg = MsgAuthFailed
    /\ Len(ForceLogouts(last.log)) = 1
    /\ adminToken = ""

C13_TransportErrorKeepsSession ==
    [][ (/\ pc[Caller] \in {"fetch_1", "fetch_2"}
         /\ pc'[Caller] = "idle"
         /\ last'.status = 0)
        => /\ last'.kind = "throw_transport"
           /\ ForceLogouts(last'.log) = <<>>
           /\ adminToken' = adminToken ]_vars

\* the step is the CSRF-rejection branch of some call (clearCsrfToken alone)
CsrfRejected ==
    \E p \in Procs : pc[p] = "fetch_1" /\ pc'[p] \in {"csrf_net_2", "csrf_val_2"}

\* C14: right after setAdminToken(t) the CSRF cache is empty, for the empty
\* and for a non-empty t; after setAdminToken('') the stored token is empty,
\* after setAdminToken(t) with a non-empty t the stored token is t.
C14_SetTokenClearsCsrf ==
    [][ /\ \A r \in LoginOutcomes :
             (/\ pc[LoginForm] = "fetch"
              /\ r.kind = "ok" /\ r.access_token # ""
              /\ LoginResponds(r))
             => /\ csrfTokenCache' = ""
                /\ adminToken' = r.access_token
        /\ (nInvalidate' > nInvalidate /\ pc[LoginForm] # "fetch" /\ ~CsrfRejected)
             => /\ csrfTokenCache' = ""
                /\ adminToken' = ""
      ]_vars

\* a login has just stored its token, after an earlier CSRF-token fetch
C14_Witness ==
    /\ pc[LoginForm] = "csrf_net"
    /\ adminToken \in LoginTokens
    /\ csrfTokenCache = ""
    /\ nCsrfFetch >= 2

\* C15: in every reachable state the CSRF cache is empty when no token is
\* stored, and a CSRF token enters the cache only if it was fetched with the
\* bearer token that is stored at that moment.
C15_CsrfCacheMatchesToken ==
    [][ /\ adminToken' = "" => csrfTokenCache' = ""
        /\ \A p \in Procs :
             (/\ pc[p] \in {"csrf_net_1", "csrf_net_2"}
              /\ pc'[p] \in {"csrf_val_1", "csrf_val_2"}
              /\ csrfTokenCache' # csrfTokenCache)
             => log[p][Len(log[p])].tok = adminToken'
      ]_vars

C17_ExpiredTokenCleared ==
    (/\ adminToken # ""
     /\ \/ JWT(adminToken).parts # 3
        \/ JWT(adminToken).text = "notjson"
        \/ (JWT(adminToken).exp > 0 /\ JWT(adminToken).exp <= now))
    ~> (adminToken = "" /\ modal.shown)

\* the token the page was using has expired while the page was idle
C17_Witness ==
    /\ adminToken = "A"
    /\ now > JWT("A").exp
    /\ ~modal.shown
    /\ nInvalidate = 0

\* C18: every request that carries the bearer token is sent by an adminFetch
\* call, after that call's local token check, and a 401 or 403 answer to a
\* request ends in forceLogout: the call throws the authentication error
\* and the stored token is empty.
C18_AllRequestsThroughAdminFetch ==
    /\ \A c \in Calls : Targets(c.log) # <<>> => c.log[1].ev = "check"
    /\ (last.kind # "none" /\ last.status \in {401, 403})
       => /\ last.kind = "throw_auth"
          /\ ForceLogouts(last.log) # <<>>
          /\ adminToken = ""

\* C19: for every string that does not have exactly 3 dot-separated
\* segments, and for every 3-segment string whose middle segment is not
\* base64url (an alphabet of letters, digits, '-' and '_') of a JSON text,
\* isTokenExpired and isTokenExpiringSoon both return true.
C19_UndecodableIsExpired ==
    (/\ last.kind = "inspected"
     /\ \/ last.token = ""
        \/ JWT(last.token).parts # 3
        \/ JWT(last.token).chars # "url"
        \/ JWT(last.token).text = "notjson")
    => (last.expired /\ last.soon)

\* C20: for every well-formed token whose payload object has no exp member,
\* at every current time, isTokenExpired and isTokenExpiringSoon return
\* false, and no step of the monitor tears the session down: the token stays
\* stored and no prompt appears.
C20_NoExpNeverExpires ==
    [][ /\ (/\ last'.kind = "inspected"
            /\ JWT(last'.token).parts = 3
            /\ JWT(last'.token).chars = "url"
            /\ JWT(last'.token).text = "object"
            /\ JWT(last'.token).exp = NoExp)
           => (~last'.expired /\ ~last'.soon)
        /\ (/\ JWT(adminToken).parts = 3
            /\ JWT(adminToken).chars = "url"
            /\ JWT(adminToken).text = "object"
            /\ JWT(adminToken).exp = NoExp)
           => (adminToken' = adminToken /\ modal' = modal)
      ]_vars

\* the token without exp was inspected at the last instant of the clock and
\* is still stored, with no prompt
C20_Witness ==
    /\ last.kind = "inspected"
    /\ last.token = "N"
    /\ last.at = MaxNow
    /\ ~last.expired /\ ~last.soon
    /\ adminToken = "N"
    /\ ~modal.shown

\* C21: for every well-formed token with an exp claim and every current
\* time, isTokenExpired is true exactly when exp < now and
\* isTokenExpiringSoon is true exactly when exp < now + 300.
C21_ExpiryComparisons ==
    (/\ last.kind = "inspected"
     /\ last.token # ""
     /\ JWT(last.token).parts = 3
     /\ JWT(last.token).chars = "url"
     /\ JWT(last.token).text = "object"
     /\ JWT(last.token).exp # NoExp)
    => /\ last.expired <=> (JWT(last.token).exp < last.at)
       /\ last.soon <=> (JWT(last.token).exp < last.at + 300)

\* C23: the e-mail/password login stores a token only on success: the
\* stored token becomes access_token exactly when the login response is OK
\* and carries a non-empty access_token; on an error response, a response
\* without access_token, a transport failure, or an empty e-mail or password,
\* the stored token and the CSRF cache are unchanged and the login prompt
\* stays shown.
C23_LoginStoresOnlyOnSuccess ==
    [][ /\ (pc[LoginForm] = "fetch" /\ pc'[LoginForm] # "fetch")
           => \A r \in LoginOutcomes :
                LoginResponds(r)
                => IF r.kind = "ok" /\ r.access_token # ""
                   THEN adminToken' = r.access_token
                   ELSE /\ adminToken' = adminToken
                        /\ csrfTokenCache' = csrfTokenCache
                        /\ modal.shown /\ modal' = modal
        /\ (last'.kind = "login_error" /\ last'.which = "empty")
           => /\ adminToken' = adminToken
              /\ csrfTokenCache' = csrfTokenCache
              /\ modal.shown /\ modal' = modal
              /\ pc' = pc
      ]_vars

\* a refused login has just shown its error: nothing is stored and the prompt
\* is still there
C23_Witness ==
    /\ last.kind = "login_error"
    /\ last.which = "notok"
    /\ adminToken = ""
    /\ modal.shown
    /\ pc[LoginForm] = "idle"

\* C27: under any interleaving of concurrent adminFetch calls, no request is
\* sent to the target URL after the session has been torn down: every target
\* request carries a bearer token equal to the token stored at the moment the
\* request is issued.
C27_BearerIsStoredTokenWhenSent ==
    \A c \in Calls :
       \A i \in 1..Len(c.log) :
          c.log[i].ev = "target"
          => /\ c.log[i].tok # ""
             /\ c.log[i].headers.Authorization = Bearer(c.log[i].tok)

\* C24: provided every network call eventually resolves or rejects, every
\* adminFetch call eventually reaches exactly one terminal outcome: a
\* returned response, an error thrown by the local check with no network
\* call made, an authentication error thrown after teardown, or a propagated
\* transport error; it never stays pending and never loops.
C24_EveryCallEnds ==
    /\ [][ /\ (pc[Caller] # "idle" /\ pc'[Caller] = "idle")
              => /\ last'.p = Caller
                 /\ last'.kind \in {"return", "throw_auth", "throw_transport"}
                 /\ last'.kind = "throw_auth"
                    => (adminToken' = "" /\ modal'.shown
                        /\ ForceLogouts(last'.log) # <<>>)
           /\ (pc[Caller] = "idle" /\ nCalls' = nCalls + 1 /\ pc'[Caller] = "idle")
              => /\ last'.p = Caller
                 /\ last'.kind = "throw_login"
                 /\ NetCalls(last'.log) = <<>>
           /\ (pc[Caller] # "idle" /\ pc'[Caller] # "idle")
              => (nCalls' = nCalls /\ Len(log'[Caller]) >= Len(log[Caller])
                  /\ Len(log'[Caller]) <= 7)
           /\ (pc[Caller] # "idle" /\ pc'[Caller] = pc[Caller])
              => ~Progress(Caller)
         ]_vars
    /\ (pc[Caller] # "idle") ~> (pc[Caller] = "idle")

\* a POST that fetched a CSRF token first and whose request was rejected by
\* the network has ended with the transport error
C24_Witness ==
    /\ pc[Caller] = "idle"
    /\ last.p = Caller
    /\ last.kind = "throw_transport"
    /\ last.options.method = "POST"
    /\ Len(NetCalls(last.log)) = 2
    /\ Len(Targets(last.log)) = 1

\* C25: cachedAdminFetch with useCache = true returns a cached result
\* without a network call only if an entry exists for the same (url,
\* serialized options) key and less than 30 seconds have passed since that
\* entry's timestamp (and with useCache = false never); only successful (ok)
\* responses ever create a cache entry.
C25_CacheHitOnlyIfFresh ==
    [][ /\ (last'.kind = "cache_hit")
           => \A k \in CachedCalls, u \in CacheUrls, useCache \in BOOLEAN :
                CachedAdminFetch(k, u, useCache)
                => /\ useCache
                   /\ u \in DOMAIN apiCache
                   /\ (now - apiCache[u].timestamp) * 1000 < 30000
                   /\ nCalls' = nCalls /\ log' = log /\ pc' = pc
        /\ \A key \in DOMAIN apiCache' :
              (key \notin DOMAIN apiCache \/ apiCache'[key] # apiCache[key])
              => \E k \in CachedCalls :
                    /\ cached[k].pc = "reading"
                    /\ cached[k].cacheKey = key
                    /\ cached[k].useCache
                    /\ cached[k].status >= 200 /\ cached[k].status <= 299
                    /\ cached'[k].pc = "idle"
      ]_vars

\* a call has just been answered from an entry that is 29 seconds old
C25_Witness ==
    /\ last.kind = "cache_hit"
    /\ last.which \in DOMAIN apiCache
    /\ now - apiCache[last.which].timestamp = 29

\* C26: under any interleaving of cachedAdminFetch calls and clearApiCache,
\* at most one underlying adminFetch for a given key is in flight at any
\* time, and when no request is in flight the pending-request map is empty.
C26_OneRequestPerKey ==
    /\ \A key \in CacheUrls :
          Cardinality({k \in CachedCalls :
                          /\ cached[k].pc = "waiting"
                          /\ cached[k].cacheKey = key
                          /\ pc[ProcOf(k)] # "idle"}) <= 1
    /\ (\A k \in CachedCalls : cached[k].pc = "idle")
       => DOMAIN pendingRequests = {}

\* C28: cachedAdminFetch never hands backend data to a caller while no usable
\* token is stored: after forceLogout or logout a call does not return a
\* response, even for a key cached less than 30 seconds earlier.
C28_NoDataWithoutToken ==
    [][ last'.kind = "cache_hit"
        => (adminToken' # "" /\ ~isTokenExpired(adminToken', now')) ]_vars

\* C29: a request in flight when clearApiCache runs does not repopulate the
\* cache on completion, and its completion does not remove the
\* pending-request entry of a newer request for the same key.
C29_ClearedRequestLeavesNoTrace ==
    [][ \A k \in CachedCalls :
           (cached[k].cleared /\ cached'[k].pc = "idle")
           => /\ apiCache' = apiCache
              /\ \A key \in DOMAIN pendingRequests :
                    pendingRequests[key] # k
                    => (key \in DOMAIN pendingRequests'
                        /\ pendingRequests'[key] = pendingRequests[key])
      ]_vars

\* C22: when the page loads with a token in the URL query string (parameter
\* token, else access_token), checkAdminAuth first persists that token as the
\* stored token (invalidating the CSRF cache), and afterwards strips the
\* query string from the URL before reloading; the token is never stripped
\* from the URL without having been persisted.
C22_UrlTokenPersistedThenStripped ==
    [][ /\ (/\ pc[Page] = "loading" /\ pc'[Page] # "loading"
            /\ (url.token # "" \/ url.access_token # ""))
           => /\ adminToken' = (IF url.token # "" THEN url.token
                                ELSE url.access_token)
              /\ csrfTokenCache' = ""
              /\ nInvalidate' = nInvalidate + 1
              /\ url' = url
              /\ pc'[Page] \in {"csrf_net", "csrf_val"}
        /\ (pc'[Page] \in {"csrf_net", "csrf_val"}
            /\ pc[Page] \notin {"csrf_net", "csrf_val"})
           => (pc[Page] = "loading" /\ (url.token # "" \/ url.access_token # ""))
        /\ (pc[Page] # "idle" /\ url' # url)
           => /\ pc[Page] = "csrf_val"
              /\ url' = NoUrl
              /\ pc'[Page] = "loading"
      ]_vars

\* the page was opened with ?access_token=, has stored it, stripped the query
\* string and loaded again without a prompt
C22_Witness ==
    /\ url = NoUrl
    /\ adminToken = "G"
    /\ pc[Page] = "idle"
    /\ ~modal.shown
    /\ nInvalidate >= 1

\* C30: when the page loads with the admin_login URL parameter, no token in
\* the URL and no stored token, page initialisation does not show the login
\* prompt.
C30_NoPromptDuringOAuth ==
    [][ (/\ pc[Page] = "loading" /\ pc'[Page] = "idle"
         /\ url.admin_login # ""
         /\ url.token = "" /\ url.access_token = ""
         /\ adminToken = "")
        => ~modal'.shown ]_vars

====
